---- MODULE Spec2Model ----
(***************************************************************************)
(* A model of the calorie tracker bot: the SQLite store (src/src/database.py), *)
(* the nutrition lookup with its two caches (src/src/food_recognition.py),  *)
(* the two scheduled jobs (src/src/scheduler.py) and the command handlers   *)
(* (src/src/main.py).                                                       *)
(*                                                                         *)
(* The specifications share the variables:                                 *)
(*   SpecMeals   Database.add_meal / get_daily_meals / get_daily_total      *)
(*   SpecUsers   Database.create_user / get_user / update_settings          *)
(*   SpecLookup  FoodRecognition.get_food_calories                          *)
(*   Spec        the running bot: handlers and scheduled jobs               *)
(*   SpecSettings  the handlers that work on the users table                *)
(*   SpecFaults  the handlers on a store that can fail                      *)
(*   SpecPhoto   the photo handler with the lookup                          *)
(*   SpecJobs    the scheduled jobs statement by statement (SpecJobsFair:   *)
(*               a started run goes on)                                     *)
(***************************************************************************)
EXTENDS Integers, Sequences, FiniteSets, TLC

VARIABLES
    users,       \* table users: user_id -> row (the rows that exist)
    meals,       \* table meals, in rowid (AUTOINCREMENT) order
    daily_logs,  \* table daily_logs, in rowid order
    now,         \* the wall clock read by datetime.utcnow()
    lastOp,      \* the call that produced this state, and what it did
    clock,       \* time.time(), in seconds
    lru,         \* the lru_cache around get_food_calories, least recently used first
    cache,       \* FoodRecognition.cache: lowercased query -> (timestamp, data)
    calls,       \* the get_food_calories calls made so far, in order
    conv,        \* ConversationHandler: each user's state in the /add conversation
    user_data,   \* context.user_data: each user's food_name
    db_locked,   \* whether SQLite refuses statements (sqlite3.OperationalError)
    job          \* each scheduled job's position in its run

storeVars == <<users, meals, daily_logs>>
lookupVars == <<clock, lru, cache, calls>>
chatVars == <<conv, user_data>>
runVars == <<db_locked, job>>

(***************************************************************************)
(* Bounds of the model.                                                    *)
(***************************************************************************)
MaxDay == 1
MaxMeals == 2

UserIds == {1, 2}
Usernames == {"ann", "bob"}
Days == 0..MaxDay

(***************************************************************************)
(* Time.  A clock value is a calendar day, a second of that day and a      *)
(* microsecond part.  The model keeps the two seconds of a day the store   *)
(* names: Midnight is 00:00:00 and LastSec is 23:59:59.                    *)
(***************************************************************************)
Midnight == 0
LastSec == 1
Seconds == Midnight..LastSec
Micros == {0, 500000}
Instants == [day : Days, sec : Seconds, usec : Micros]

TimeLess(a, b) ==
    \/ a.day < b.day
    \/ a.day = b.day /\ a.sec < b.sec
    \/ a.day = b.day /\ a.sec = b.sec /\ a.usec < b.usec

(* datetime.isoformat(): "YYYY-MM-DDTHH:MM:SS", followed by ".ffffff" only *)
(* when the microsecond part is not zero.  The text is kept as the         *)
(* sequence of its fixed-width fields, so a text without the microsecond   *)
(* part is a proper prefix of the texts of the same second that have one.  *)
IsoFormat(t) ==
    IF t.usec = 0 THEN <<t.day, t.sec>> ELSE <<t.day, t.sec, t.usec>>

(* f"{day.isoformat()}T00:00:00" and f"{day.isoformat()}T23:59:59" *)
DayText(day, sec) == <<day, sec>>

(* SQLite compares TEXT with memcmp: field by field here, and a proper     *)
(* prefix sorts before the longer text.                                    *)
RECURSIVE TextLeq(_, _)
TextLeq(a, b) ==
    IF a = <<>> THEN TRUE
    ELSE IF b = <<>> THEN FALSE
    ELSE IF Head(a) < Head(b) THEN TRUE
    ELSE IF Head(a) > Head(b) THEN FALSE
    ELSE TextLeq(Tail(a), Tail(b))

(* x BETWEEN lo AND hi *)
Between(x, lo, hi) == TextLeq(lo, x) /\ TextLeq(x, hi)

(* date.today() *)
Today == now.day

(***************************************************************************)
(* The clock.  It advances on its own; an adjustment of the host clock     *)
(* (datetime.utcnow() reads the wall clock) takes back a fraction of a     *)
(* second.                                                                 *)
(***************************************************************************)
Tick ==
    /\ \E t \in Instants : TimeLess(now, t) /\ now' = t
    /\ lastOp' = [op |-> "Tick"]
    /\ UNCHANGED <<storeVars, lookupVars, chatVars, runVars>>

ClockAdjust ==
    /\ now.usec > 0
    /\ now' = [now EXCEPT !.usec = 0]
    /\ lastOp' = [op |-> "ClockAdjust"]
    /\ UNCHANGED <<storeVars, lookupVars, chatVars, runVars>>

(***************************************************************************)
(* Database (src/src/database.py)                                          *)
(***************************************************************************)
Columns == {"user_id", "username", "created_at", "reminder_enabled", "daily_target"}

(* The row INSERT ... (user_id, username, created_at) creates: the other   *)
(* columns take their DEFAULT.                                             *)
NewUserRow(user_id, username) ==
    [user_id |-> user_id, username |-> username, created_at |-> IsoFormat(now),
     reminder_enabled |-> 1, daily_target |-> 2000]

WithRow(table, user_id, row) ==
    [u \in DOMAIN table \cup {user_id} |-> IF u = user_id THEN row ELSE table[u]]

(* A plausible slip: INSERT OR REPLACE. *)
create_user_replace(user_id, username) ==
    users' = WithRow(users, user_id, NewUserRow(user_id, username))

(* INSERT OR IGNORE: user_id is the PRIMARY KEY. *)
create_user(user_id, username) ==
    users' = IF user_id \in DOMAIN users
             THEN users
             ELSE WithRow(users, user_id, NewUserRow(user_id, username))

NoUser == [user_id |-> 0]

(* dict(row) if row else None *)
get_user(user_id) ==
    IF user_id \in DOMAIN users THEN users[user_id] ELSE NoUser

NewMealRow(user_id, food_name, calories, meal_type, photo_url) ==
    [id |-> Len(meals) + 1, user_id |-> user_id, food_name |-> food_name,
     calories |-> calories, meal_type |-> meal_type, photo_url |-> photo_url,
     created_at |-> IsoFormat(now)]

(* A plausible slip: INSERT OR REPLACE on a key of user and food, which    *)
(* overwrites the meal the user logged before under that name.             *)
add_meal_replace(user_id, food_name, calories, meal_type, photo_url) ==
    meals' = Append(SelectSeq(meals, LAMBDA m : ~(m.user_id = user_id /\ m.food_name = food_name)),
                    NewMealRow(user_id, food_name, calories, meal_type, photo_url))

(* INSERT INTO meals: foreign keys are not enforced (no PRAGMA), so the    *)
(* row is stored whether or not the user exists.                           *)
add_meal(user_id, food_name, calories, meal_type, photo_url) ==
    meals' = Append(meals, NewMealRow(user_id, food_name, calories, meal_type, photo_url))

(* ORDER BY created_at: rows of equal created_at stay in rowid order. *)
RECURSIVE InsertByCreatedAt(_, _)
InsertByCreatedAt(row, sorted) ==
    IF sorted = <<>> THEN <<row>>
    ELSE IF TextLeq(sorted[Len(sorted)].created_at, row.created_at)
         THEN Append(sorted, row)
         ELSE Append(InsertByCreatedAt(row, SubSeq(sorted, 1, Len(sorted) - 1)),
                     sorted[Len(sorted)])

RECURSIVE OrderByCreatedAt(_)
OrderByCreatedAt(rows) ==
    IF rows = <<>> THEN <<>>
    ELSE InsertByCreatedAt(rows[Len(rows)],
                           OrderByCreatedAt(SubSeq(rows, 1, Len(rows) - 1)))

(* A plausible slip: the ORDER BY left out. *)
get_daily_meals_unordered(user_id, day) ==
    LET start_date == DayText(day, Midnight)
        end_date == DayText(day, LastSec)
        IsHit(m) == m.user_id = user_id /\ Between(m.created_at, start_date, end_date)
    IN SelectSeq(meals, IsHit)

get_daily_meals(user_id, day) ==
    LET start_date == DayText(day, Midnight)
        end_date == DayText(day, LastSec)
        IsHit(m) == m.user_id = user_id /\ Between(m.created_at, start_date, end_date)
    IN OrderByCreatedAt(SelectSeq(meals, IsHit))

RECURSIVE SumCalories(_)
SumCalories(rows) ==
    IF rows = <<>> THEN 0 ELSE rows[1].calories + SumCalories(Tail(rows))

get_daily_total(user_id, day) == SumCalories(get_daily_meals(user_id, day))

(* The statement built from the patch: "UPDATE users SET  WHERE ..." for   *)
(* an empty patch, and "SET k = ?" for a key that is no column, are        *)
(* refused by SQLite (sqlite3.OperationalError) and change nothing.        *)
update_settings_raises(settings) ==
    DOMAIN settings = {} \/ ~(DOMAIN settings \subseteq Columns)

(* UPDATE users SET k1 = ?, ... WHERE user_id = ?: every key of the patch  *)
(* that is a column is written; no row matches a user that does not exist. *)
update_settings(user_id, settings) ==
    users' = IF update_settings_raises(settings) \/ user_id \notin DOMAIN users
             THEN users
             ELSE [users EXCEPT ![user_id] =
                      [c \in Columns |-> IF c \in DOMAIN settings THEN settings[c] ELSE @[c]]]

NewLogRow(user_id, total_calories, target_met) ==
    [user_id |-> user_id, date |-> Today, total_calories |-> total_calories,
     target_met |-> IF target_met THEN 1 ELSE 0, created_at |-> IsoFormat(now)]

log_daily_summary(user_id, total_calories, target_met) ==
    daily_logs' = Append(daily_logs, NewLogRow(user_id, total_calories, target_met))

(***************************************************************************)
(* SpecMeals: the meals table under any sequence of add_meal calls.        *)
(***************************************************************************)
CalorieValues == {100, 250}
FoodNames == {"soup"}

StartOfTime == [day |-> 0, sec |-> Midnight, usec |-> 0]

(* The two jobs of setup_jobs; a job that is not running is idle. *)
Jobs == {"send_daily_summary", "send_reminder"}
Idle == [pos |-> "idle", queue |-> <<>>, total |-> 0]

InitEmpty ==
    /\ users = <<>>
    /\ meals = <<>>
    /\ daily_logs = <<>>
    /\ now = StartOfTime
    /\ lastOp = [op |-> "init"]
    /\ clock = 0
    /\ lru = <<>>
    /\ cache = <<>>
    /\ calls = <<>>
    /\ conv = [u \in UserIds |-> "END"]
    /\ user_data = [u \in UserIds |-> "unset"]
    /\ db_locked = FALSE
    /\ job = [j \in Jobs |-> Idle]

AddMealCall ==
    /\ Len(meals) < MaxMeals
    /\ \E u \in UserIds, f \in FoodNames, c \in CalorieValues :
          add_meal(u, f, c, "manual", "None")
    /\ lastOp' = [op |-> "add_meal"]
    /\ UNCHANGED <<users, daily_logs, now, lookupVars, chatVars, runVars>>

vars == <<users, meals, daily_logs, now, lastOp, clock, lru, cache, calls, conv, user_data,
          db_locked, job>>

NextMeals == AddMealCall \/ Tick \/ ClockAdjust

SpecMeals == InitEmpty /\ [][NextMeals]_vars

(***************************************************************************)
(* Claims about the meals table (SpecMeals).                               *)
(***************************************************************************)
(* The clock value a created_at text stands for. *)
ParseIso(text) ==
    [day |-> text[1], sec |-> text[2], usec |-> IF Len(text) = 3 THEN text[3] ELSE 0]

MealsOf(user_id) == {i \in 1..Len(meals) : meals[i].user_id = user_id}

RECURSIVE SumOver(_)
SumOver(idx) ==
    IF idx = {} THEN 0
    ELSE LET i == CHOOSE j \in idx : TRUE
         IN meals[i].calories + SumOver(idx \ {i})

(* The meals of a user stamped inside calendar day d. *)
InDay(user_id, d) == {i \in MealsOf(user_id) : ParseIso(meals[i].created_at).day = d}

(* The meals of a user stamped from d 00:00:00 to d 23:59:59, both included. *)
InWindow(user_id, d) ==
    {i \in MealsOf(user_id) :
        LET t == ParseIso(meals[i].created_at)
        IN /\ t.day = d
           /\ ~TimeLess(t, [day |-> d, sec |-> Midnight, usec |-> 0])
           /\ ~TimeLess([day |-> d, sec |-> LastSec, usec |-> 0], t)}

(* C1: after any sequence of add_meal calls, daily_total(u, d) is the sum  *)
(* of the calories of exactly the meals added for u with a timestamp       *)
(* inside calendar day d (0 when there are none).                          *)
C1_DailyTotalIsDaySum ==
    \A u \in UserIds, d \in Days : get_daily_total(u, d) = SumOver(InDay(u, d))

(* C2: daily_meals(u, d) returns all of u's meals stamped within           *)
(* [d 00:00:00, d 23:59:59], in non-decreasing timestamp order, and no     *)
(* meal of another calendar day or of another user.                        *)
C2_DailyMealsWindowOrdered ==
    \A u \in UserIds, d \in Days :
        LET r == get_daily_meals(u, d)
        IN /\ {r[k].id : k \in 1..Len(r)} = InWindow(u, d)
           /\ Len(r) = Cardinality(InWindow(u, d))
           /\ \A k \in 1..Len(r) :
                 /\ r[k] = meals[r[k].id]
                 /\ r[k].user_id = u
                 /\ ParseIso(r[k].created_at).day = d
           /\ \A j, k \in 1..Len(r) :
                 j < k => ~TimeLess(ParseIso(r[k].created_at), ParseIso(r[j].created_at))

(* Two meals of one user and day come back in the other order than they   *)
(* were stored: the clock was taken back between the two add_meal calls.   *)
C2_Witness ==
    \E u \in UserIds, d \in Days :
        LET r == get_daily_meals(u, d)
        IN /\ Len(r) = 2
           /\ r[1].id > r[2].id
           /\ TimeLess(ParseIso(r[1].created_at), ParseIso(r[2].created_at))

(***************************************************************************)
(* SpecUsers: the users table under any sequence of create_user and        *)
(* update_settings calls.                                                  *)
(***************************************************************************)
AllowedSettings == {"daily_target", "reminder_enabled"}

(* The patches tried: by the set of their keys; "bogus" is no column. *)
PatchKeySets ==
    {{}, {"daily_target"}, {"reminder_enabled"}, {"username"}, {"bogus"},
     {"daily_target", "username"}}

PatchValue(key) ==
    CASE key = "daily_target" -> 1800
      [] key = "reminder_enabled" -> 0
      [] key = "username" -> "bob"
      [] OTHER -> 1

Patch(keys) == [k \in keys |-> PatchValue(k)]

CreateUserCall ==
    /\ \E u \in UserIds, n \in Usernames :
          /\ create_user(u, n)
          /\ lastOp' = [op |-> "create_user", user_id |-> u, username |-> n]
    /\ UNCHANGED <<meals, daily_logs, now, lookupVars, chatVars, runVars>>

UpdateSettingsCall ==
    /\ \E u \in UserIds, keys \in PatchKeySets :
          /\ update_settings(u, Patch(keys))
          /\ lastOp' = [op |-> "update_settings", keys |-> keys]
    /\ UNCHANGED <<meals, daily_logs, now, lookupVars, chatVars, runVars>>

NextUsers == CreateUserCall \/ UpdateSettingsCall \/ Tick \/ ClockAdjust

SpecUsers == InitEmpty /\ [][NextUsers]_vars

(***************************************************************************)
(* Claims about the users table (SpecUsers).                               *)
(***************************************************************************)
(* C6: create_user(id, name2) on an id that already has a row leaves the   *)
(* whole table unchanged (username, created_at, reminder_enabled and       *)
(* daily_target, also when update_settings changed them), and adds no row; *)
(* on an id without a row it adds exactly that row.                        *)
C6_CreateUserIdempotent ==
    [][lastOp'.op = "create_user" =>
          IF lastOp'.user_id \in DOMAIN users
          THEN users' = users
          ELSE /\ DOMAIN users' = DOMAIN users \cup {lastOp'.user_id}
               /\ \A u \in DOMAIN users : users'[u] = users[u]
               /\ users'[lastOp'.user_id].username = lastOp'.username]_vars

(* create_user has just been called, at a later time and with another name, *)
(* for a user whose settings update_settings had changed: the row kept its  *)
(* name, its creation time and its settings.                               *)
C6_Witness ==
    /\ lastOp.op = "create_user"
    /\ lastOp.user_id \in DOMAIN users
    /\ users[lastOp.user_id].username # lastOp.username
    /\ users[lastOp.user_id].created_at # IsoFormat(now)
    /\ users[lastOp.user_id].daily_target = 1800
    /\ users[lastOp.user_id].reminder_enabled = 0

(* C7: update_settings accepts only the keys daily_target and              *)
(* reminder_enabled: a patch with any other key leaves the row unchanged.  *)
C7_UnknownKeysRejected ==
    [][(lastOp'.op = "update_settings" /\ ~(lastOp'.keys \subseteq AllowedSettings))
          => users' = users]_vars

(***************************************************************************)
(* FoodRecognition.get_food_calories (src/src/food_recognition.py)         *)
(***************************************************************************)
MaxTicks == 2
MaxCalls == 3

cache_timeout == 3600
lru_maxsize == 100

Queries == {"apple", "Apple", "rice"}

(* str.lower() on the queries tried *)
Lower(query) == IF query = "Apple" THEN "apple" ELSE query

(* What the nutrition service can answer to one request: no answer within  *)
(* the 5 seconds, a status other than 200, or 200 with a list of items.    *)
ApiCalories == {0, 95}
Item(query, calories) == [name |-> Lower(query), calories |-> calories]

ErrorStatuses == {404, 500}

Responses(query) ==
    {[kind |-> "timeout", status_code |-> 0, items |-> <<>>],
     [kind |-> "connection_error", status_code |-> 0, items |-> <<>>],
     [kind |-> "response", status_code |-> 200, items |-> <<>>]}
    \cup {[kind |-> "response", status_code |-> c, items |-> <<>>] : c \in ErrorStatuses}
    \cup {[kind |-> "response", status_code |-> 200, items |-> <<Item(query, c)>>] :
             c \in ApiCalories}

NoRequest == [kind |-> "none", status_code |-> 0, items |-> <<>>]

(* The returned tuple: (name, calories), or (None, message). *)
Found(item) == [name |-> item.name, calories |-> item.calories, error |-> ""]
Failed(message) == [name |-> "None", calories |-> 0, error |-> message]

(* Lines 72-75: the entry of self.cache is used while it is younger than   *)
(* cache_timeout.                                                          *)
CacheFresh(cache_key) ==
    /\ cache_key \in DOMAIN cache
    /\ clock - cache[cache_key].timestamp < cache_timeout

(* f"API Error: {response.status_code}", on the statuses tried *)
ApiErrorText(status_code) ==
    IF status_code = 404 THEN "API Error: 404" ELSE "API Error: 500"

(* A plausible slip: an empty item list taken for a food without calories. *)
RequestResultEmptyAsFood(resp) ==
    IF resp.kind = "timeout" THEN Failed("API request timed out")
    ELSE IF resp.kind = "connection_error" THEN Failed("Error getting calories")
    ELSE IF resp.status_code = 200
         THEN IF resp.items # <<>> THEN Found(resp.items[1])
              ELSE [name |-> "unknown", calories |-> 0, error |-> ""]
         ELSE Failed(ApiErrorText(resp.status_code))

(* Lines 77-100: the outcome of the request. *)
RequestResult(resp) ==
    IF resp.kind = "timeout" THEN Failed("API request timed out")
    ELSE IF resp.kind = "connection_error" THEN Failed("Error getting calories")
    ELSE IF resp.status_code = 200
         THEN IF resp.items # <<>> THEN Found(resp.items[1])
              ELSE Failed("Food not found in database")
         ELSE Failed(ApiErrorText(resp.status_code))

(* The body of get_food_calories, run on a miss of the lru_cache:          *)
(* the value returned, the cache afterwards, and whether a request went    *)
(* out.  resp is the service's answer, read only when a request goes out.  *)
FoodCaloriesBody(query, resp) ==
    LET cache_key == Lower(query)
    IN IF CacheFresh(cache_key)
       THEN [result |-> cache[cache_key].data, cache |-> cache, requested |-> FALSE]
       ELSE LET result == RequestResult(resp)
            IN [result |-> result,
                cache |-> IF result.error = ""
                          THEN [k \in DOMAIN cache \cup {cache_key} |->
                                   IF k = cache_key
                                   THEN [timestamp |-> clock, data |-> result]
                                   ELSE cache[k]]
                          ELSE cache,
                requested |-> TRUE]

LruHas(query) == \E i \in 1..Len(lru) : lru[i].query = query
LruGet(query) == lru[CHOOSE i \in 1..Len(lru) : lru[i].query = query].result
LruWithout(query) == SelectSeq(lru, LAMBDA e : e.query # query)

(* functools.lru_cache: a hit makes the entry the most recently used; a    *)
(* miss stores the value returned, dropping the least recently used entry  *)
(* when maxsize entries are held.                                          *)
LruTouch(query) == Append(LruWithout(query), [query |-> query, result |-> LruGet(query)])
LruStore(query, result) ==
    LET kept == IF Len(lru) >= lru_maxsize THEN Tail(lru) ELSE lru
    IN Append(kept, [query |-> query, result |-> result])

CallRecord(query, result, resp, stale) ==
    [query |-> query, at |-> clock, result |-> result, requested |-> resp # NoRequest,
     resp |-> resp, stale |-> stale]

(* Whether self.cache holds an entry for the query that is past the window. *)
CacheStale(query) ==
    /\ Lower(query) \in DOMAIN cache
    /\ clock - cache[Lower(query)].timestamp >= cache_timeout

(* @lru_cache(maxsize=100) def get_food_calories(self, query) *)
get_food_calories(query) ==
    IF LruHas(query)
    THEN /\ lru' = LruTouch(query)
         /\ cache' = cache
         /\ calls' = Append(calls, CallRecord(query, LruGet(query), NoRequest, CacheStale(query)))
    ELSE \E resp \in (IF CacheFresh(Lower(query)) THEN {NoRequest} ELSE Responses(query)) :
            LET out == FoodCaloriesBody(query, resp)
            IN /\ lru' = LruStore(query, out.result)
               /\ cache' = out.cache
               /\ calls' = Append(calls,
                                  CallRecord(query, out.result, resp, CacheStale(query)))

LookupCall ==
    /\ Len(calls) < MaxCalls
    /\ \E q \in Queries : get_food_calories(q)
    /\ lastOp' = [op |-> "get_food_calories"]
    /\ UNCHANGED <<storeVars, now, clock, chatVars, runVars>>

ClockStep == cache_timeout \div 2

TimePasses ==
    /\ clock < MaxTicks * ClockStep
    /\ clock' = clock + ClockStep
    /\ lastOp' = [op |-> "TimePasses"]
    /\ UNCHANGED <<storeVars, now, lru, cache, calls, chatVars, runVars>>

NextLookup == LookupCall \/ TimePasses

SpecLookup == InitEmpty /\ [][NextLookup]_vars

(***************************************************************************)
(* Claims about the lookup caches (SpecLookup).                            *)
(***************************************************************************)
SameQuery(i, j) == Lower(calls[i].query) = Lower(calls[j].query)

(* C9: two lookups of the same query (compared by its lowercased form)     *)
(* made within the cache window issue at most one outbound request and     *)
(* return identical results.  The window opens when a request brings a     *)
(* result: a later lookup of the query inside it issues no request and     *)
(* returns that result.                                                    *)
C9_OneRequestPerWindow ==
    \A i, j \in 1..Len(calls) :
        (/\ i < j /\ SameQuery(i, j)
         /\ calls[i].requested /\ calls[i].result.error = ""
         /\ calls[j].at - calls[i].at < cache_timeout)
            => /\ ~calls[j].requested
               /\ calls[j].result = calls[i].result

(* C10: a lookup made when the window has elapsed since the result of the  *)
(* query was stored issues a new outbound request.                         *)
C10_ExpiredEntryRequestsAgain ==
    \A j \in 1..Len(calls) : calls[j].stale => calls[j].requested

(* C22: a lookup that ended in an error (timeout, API error, not found) is *)
(* not remembered: the next lookup of the same query string issues a new   *)
(* outbound request and can succeed.  The next lookup of the string does   *)
(* not answer with an error it has not just been given by a request.       *)
C22_ErrorsNotRemembered ==
    \A i, j \in 1..Len(calls) :
        (/\ i < j
         /\ calls[i].query = calls[j].query
         /\ \A k \in (i + 1)..(j - 1) : calls[k].query # calls[i].query
         /\ calls[i].result.error # "")
            => calls[j].requested \/ calls[j].result.error = ""

(* C11: lookup never crashes: a request that times out, one answered with  *)
(* a status other than 200 and one answered 200 with an empty item list    *)
(* each return their own error result (timeout, api_error(status),         *)
(* not_found), and none of them stores an entry in the time-boxed cache;   *)
(* only a 200 answer with items returns (name, calories) of the first      *)
(* item.                                                                   *)
C11_ErrorsAreResults ==
    /\ [](\A j \in 1..Len(calls) :
            LET resp == calls[j].resp
                result == calls[j].result
            IN calls[j].requested =>
                 /\ resp.kind = "timeout" =>
                        result = [name |-> "None", calories |-> 0,
                                  error |-> "API request timed out"]
                 /\ (resp.kind = "response" /\ resp.status_code # 200) =>
                        /\ result.name = "None"
                        /\ result.error = ApiErrorText(resp.status_code)
                        /\ result.error \notin {"API request timed out",
                                                "Food not found in database"}
                 /\ (resp.kind = "response" /\ resp.status_code = 200 /\ resp.items = <<>>) =>
                        result = [name |-> "None", calories |-> 0,
                                  error |-> "Food not found in database"]
                 /\ result.error = "" <=>
                        (resp.kind = "response" /\ resp.status_code = 200 /\ resp.items # <<>>)
                 /\ result.error = "" =>
                        /\ result.name = resp.items[1].name
                        /\ result.calories = resp.items[1].calories)
    /\ [][(LookupCall /\ calls'[Len(calls')].requested
              /\ calls'[Len(calls')].result.error # "") => cache' = cache]_vars

(* The three failures of the claim have each been returned, and the cache  *)
(* holds no entry.                                                         *)
C11_Witness ==
    /\ \E j \in 1..Len(calls) : calls[j].resp.kind = "timeout"
    /\ \E j \in 1..Len(calls) :
           calls[j].resp.kind = "response" /\ calls[j].resp.status_code \in ErrorStatuses
    /\ \E j \in 1..Len(calls) :
           /\ calls[j].resp.kind = "response" /\ calls[j].resp.status_code = 200
           /\ calls[j].resp.items = <<>>
    /\ cache = <<>>

(***************************************************************************)
(* The bot: the command handlers (src/src/main.py) and the scheduled jobs  *)
(* (src/src/scheduler.py), on the store above.                             *)
(***************************************************************************)
(* The attributes of the object db: those of class Database. *)
DatabaseAttributes ==
    {"db_path", "init_db", "create_user", "get_user", "add_meal", "get_daily_meals",
     "get_daily_total", "update_settings", "log_daily_summary"}

(* value.data, on a value the store returns: get_user returns a dict or    *)
(* None and get_daily_meals a list, and none of them has an attribute      *)
(* data (AttributeError).                                                  *)
HasData(value) == FALSE

(* Message texts and command arguments are sequences of characters. *)
DecimalDigits == <<"0", "1", "2", "3", "4", "5", "6", "7", "8", "9">>
IsDecimal(c) == \E i \in 1..Len(DecimalDigits) : DecimalDigits[i] = c
DigitValue(c) == (CHOOSE i \in 1..Len(DecimalDigits) : DecimalDigits[i] = c) - 1

(* str.isdigit(): not empty and every character a digit; SUP2, the         *)
(* superscript two, is a digit for isdigit and not a decimal for int().    *)
isdigit(text) ==
    text # <<>> /\ \A i \in 1..Len(text) : IsDecimal(text[i]) \/ text[i] = "SUP2"

(* int(text) on a text that passed isdigit: ValueError unless every        *)
(* character is a decimal.                                                 *)
IntParses(text) == text # <<>> /\ \A i \in 1..Len(text) : IsDecimal(text[i])

RECURSIVE IntOf(_)
IntOf(text) ==
    IF text = <<>> THEN 0
    ELSE 10 * IntOf(SubSeq(text, 1, Len(text) - 1)) + DigitValue(text[Len(text)])

(* float(text) on the texts tried: an optional sign and decimals. *)
Unsigned(text) == IF text # <<>> /\ text[1] = "-" THEN Tail(text) ELSE text
FloatParses(text) == IntParses(Unsigned(text))
FloatOf(text) ==
    IF text # <<>> /\ text[1] = "-" THEN 0 - IntOf(Tail(text)) ELSE IntOf(text)

(* context.args of /set_target: no argument, or one of these texts. *)
TargetTexts ==
    {<<"a", "b", "c">>, <<"-", "6", "0", "0">>, <<"SUP2">>,
     <<"4", "9", "9">>, <<"5", "0", "0">>,
     <<"5", "0", "0", "0">>, <<"5", "0", "0", "1">>}
TargetArgs == {<<>>} \cup {<<t>> : t \in TargetTexts}

(* The texts sent in the calorie-entry state. *)
CalorieTexts == {<<"2", "5", "0">>, <<"-", "5">>, <<"a", "b", "c">>}

Replied(op, user_id, reply, called) ==
    lastOp' = [op |-> op, user_id |-> user_id, reply |-> reply, called |-> called]

(* The handler ended by an exception it does not catch: nothing is sent. *)
Escaped(op, user_id, called) ==
    lastOp' = [op |-> op, user_id |-> user_id, reply |-> "", called |-> called]

(* "except Exception" of start, process_photo, summary, settings,          *)
(* set_target and toggle_reminders; "except ValueError" of                 *)
(* calories_received.                                                      *)
except_Exception(raised) == TRUE
except_ValueError(raised) == raised = "ValueError"

(* start: existing_user.data raises on what get_user returns, and the      *)
(* handler answers with its error text.                                    *)
start(user_id) ==
    /\ IF ~HasData(get_user(user_id))
       THEN /\ Replied("start", user_id, "error starting the bot", {"get_user"})
            /\ UNCHANGED users
       ELSE IF user_id \notin DOMAIN users
            THEN /\ \E n \in Usernames : create_user(user_id, n)
                 /\ Replied("start", user_id, "welcome", {"get_user", "create_user"})
            ELSE /\ Replied("start", user_id, "welcome back", {"get_user"})
                 /\ UNCHANGED users
    /\ UNCHANGED <<meals, daily_logs, now, lookupVars, chatVars, runVars>>

(* A plausible slip: the upper limit left out of line 249. *)
TargetOutOfRangeNoUpper(target) == target < 500

(* line 249 *)
TargetOutOfRange(target) == target < 500 \/ target > 5000

set_target(user_id, args) ==
    /\ IF args = <<>> \/ ~isdigit(args[1])
       THEN /\ Replied("set_target", user_id, "provide a valid number", {})
            /\ UNCHANGED users
       ELSE IF ~IntParses(args[1])
            THEN /\ Replied("set_target", user_id, "error updating your target", {})
                 /\ UNCHANGED users
            ELSE IF TargetOutOfRange(IntOf(args[1]))
                 THEN /\ Replied("set_target", user_id, "between 500 and 5000", {})
                      /\ UNCHANGED users
                 ELSE IF db_locked
                      THEN /\ IF except_Exception("OperationalError")
                              THEN Replied("set_target", user_id, "error updating your target",
                                           {"update_settings"})
                              ELSE Escaped("set_target", user_id, {"update_settings"})
                           /\ UNCHANGED users
                      ELSE /\ update_settings(user_id, [daily_target |-> IntOf(args[1])])
                           /\ Replied("set_target", user_id, "target updated",
                                      {"update_settings"})
    /\ UNCHANGED <<meals, daily_logs, now, lookupVars, chatVars, runVars>>

(* toggle_reminders: db.get_user(...).data raises before anything is       *)
(* written.                                                                *)
toggle_reminders(user_id) ==
    /\ IF ~HasData(get_user(user_id))
       THEN /\ Replied("toggle_reminders", user_id, "error updating your reminder settings",
                       {"get_user"})
            /\ UNCHANGED users
       ELSE /\ user_id \in DOMAIN users
            /\ update_settings(user_id,
                   [reminder_enabled |-> IF users[user_id].reminder_enabled = 1 THEN 0 ELSE 1])
            /\ Replied("toggle_reminders", user_id, "reminders toggled",
                       {"get_user", "update_settings"})
    /\ UNCHANGED <<meals, daily_logs, now, lookupVars, chatVars, runVars>>

(* The /add conversation: entry point, the two states, the fallback. *)
add_command(user_id) ==
    /\ conv[user_id] = "END"
    /\ conv' = [conv EXCEPT ![user_id] = "FOOD_NAME"]
    /\ Replied("add_command", user_id, "enter the name", {})
    /\ UNCHANGED <<storeVars, now, lookupVars, user_data, runVars>>

food_name_received(user_id, text) ==
    /\ conv[user_id] = "FOOD_NAME"
    /\ user_data' = [user_data EXCEPT ![user_id] = text]
    /\ conv' = [conv EXCEPT ![user_id] = "CALORIES"]
    /\ Replied("food_name_received", user_id, "enter a number", {})
    /\ UNCHANGED <<storeVars, now, lookupVars, runVars>>

(* A plausible slip: the conversation ended on a text that is no number. *)
calories_received_ends(user_id, text) ==
    /\ conv[user_id] = "CALORIES"
    /\ IF ~FloatParses(text)
       THEN /\ Replied("calories_received", user_id, "enter a valid number", {})
            /\ conv' = [conv EXCEPT ![user_id] = "END"]
            /\ UNCHANGED meals
       ELSE /\ Len(meals) < MaxMeals
            /\ add_meal(user_id, user_data[user_id], FloatOf(text), "manual", "None")
            /\ conv' = [conv EXCEPT ![user_id] = "END"]
            /\ Replied("calories_received", user_id, "logged",
                       {"add_meal", "get_daily_total"})
    /\ UNCHANGED <<users, daily_logs, now, lookupVars, user_data, runVars>>

(* calories_received: float() raises ValueError, which line 118 catches;   *)
(* an error of the store in add_meal is no ValueError and leaves the       *)
(* handler, the conversation staying where it was.                         *)
calories_received(user_id, text) ==
    /\ conv[user_id] = "CALORIES"
    /\ IF ~FloatParses(text)
       THEN /\ except_ValueError("ValueError")
            /\ Replied("calories_received", user_id, "enter a valid number", {})
            /\ UNCHANGED <<meals, conv>>
       ELSE IF db_locked
            THEN /\ IF except_ValueError("OperationalError")
                    THEN Replied("calories_received", user_id, "enter a valid number",
                                 {"add_meal"})
                    ELSE Escaped("calories_received", user_id, {"add_meal"})
                 /\ UNCHANGED <<meals, conv>>
            ELSE /\ Len(meals) < MaxMeals
                 /\ add_meal(user_id, user_data[user_id], FloatOf(text), "manual", "None")
                 /\ conv' = [conv EXCEPT ![user_id] = "END"]
                 /\ Replied("calories_received", user_id, "logged",
                            {"add_meal", "get_daily_total"})
    /\ UNCHANGED <<users, daily_logs, now, lookupVars, user_data, runVars>>

cancel(user_id) ==
    /\ conv[user_id] # "END"
    /\ conv' = [conv EXCEPT ![user_id] = "END"]
    /\ Replied("cancel", user_id, "cancelled", {})
    /\ UNCHANGED <<storeVars, now, lookupVars, user_data, runVars>>

(* The photos tried: one whose download fails, one that PIL cannot open,   *)
(* one smaller than 100 x 100, and a red and a white one.                  *)
Images == {"download_fails", "corrupt", "small", "red", "white"}

(* process_image, lines 45-58: the query chosen from the average colour. *)
QueryOfColour(image) == IF image = "red" THEN "apple" ELSE "rice"

(* bool(food_name) and bool(calories), line 139 *)
NameTruthy(name) == name # "None" /\ name # ""
NumberTruthy(number) == number # 0

(* process_photo, with process_image: the lookup runs for an image that    *)
(* opens and is large enough; the meal is stored when both parts of the    *)
(* returned pair are truthy.                                               *)
process_photo(user_id, image) ==
    /\ IF image = "download_fails"
       THEN /\ Replied("process_photo", user_id, "error processing your photo, use /add", {})
            /\ UNCHANGED <<meals, lru, cache, calls>>
       ELSE IF image \in {"corrupt", "small"}
            THEN /\ Replied("process_photo", user_id, "couldn't recognize, use /add",
                            {"process_image"})
                 /\ UNCHANGED <<meals, lru, cache, calls>>
            ELSE /\ Len(calls) < MaxCalls
                 /\ get_food_calories(QueryOfColour(image))
                 /\ LET result == calls'[Len(calls')].result
                    IN IF NameTruthy(result.name) /\ NumberTruthy(result.calories)
                       THEN IF db_locked
                            THEN /\ IF except_Exception("OperationalError")
                                    THEN Replied("process_photo", user_id,
                                                 "error processing your photo, use /add",
                                                 {"process_image", "add_meal"})
                                    ELSE Escaped("process_photo", user_id,
                                                 {"process_image", "add_meal"})
                                 /\ UNCHANGED meals
                            ELSE /\ Len(meals) < MaxMeals
                                 /\ add_meal(user_id, result.name, result.calories,
                                             "photo", "file_path")
                                 /\ Replied("process_photo", user_id, "recognized",
                                            {"process_image", "add_meal", "get_daily_total"})
                       ELSE /\ Replied("process_photo", user_id, "couldn't recognize, use /add",
                                       {"process_image"})
                            /\ UNCHANGED meals
    /\ UNCHANGED <<users, daily_logs, now, clock, chatVars, runVars>>

(***************************************************************************)
(* SchedulerService (src/src/scheduler.py)                                 *)
(***************************************************************************)
RECURSIVE SeqOfSet(_)
SeqOfSet(S) ==
    IF S = {} THEN <<>>
    ELSE LET m == CHOOSE x \in S : \A y \in S : x <= y
         IN <<m>> \o SeqOfSet(S \ {m})

JobDone(op, raised, logged, sent) ==
    lastOp' = [op |-> op, raised |-> raised, logged |-> logged, sent |-> sent]

(* Lines 47-63, for one user. *)
SummaryRow(user_id) ==
    LET total_calories == get_daily_total(user_id, Today)
    IN NewLogRow(user_id, total_calories, total_calories <= users[user_id].daily_target)

(* send_daily_summary: db.supabase is no attribute of the Database object, *)
(* so line 40 raises and the except of line 71 ends the run.  Were the     *)
(* users read, the loop would log and message them in turn until a call    *)
(* raises, inside the one try block.                                       *)
send_daily_summary ==
    /\ IF "supabase" \notin DatabaseAttributes
       THEN /\ JobDone("send_daily_summary", TRUE, {}, {})
            /\ UNCHANGED daily_logs
       ELSE LET order == SeqOfSet(DOMAIN users)
            IN \E n \in 0..Len(order), fail \in {"none", "log", "send"} :
                  /\ (fail = "none") <=> (n = Len(order))
                  /\ LET nlogged == IF fail = "send" THEN n + 1 ELSE n
                     IN /\ daily_logs' = daily_logs \o
                                            [i \in 1..nlogged |-> SummaryRow(order[i])]
                        /\ JobDone("send_daily_summary", fail # "none",
                                   {order[i] : i \in 1..nlogged},
                                   {order[i] : i \in 1..n})
    /\ UNCHANGED <<users, meals, now, lookupVars, chatVars, runVars>>

(* send_reminder: line 78 raises in the same way.  Were the users read,    *)
(* meals.data of line 89 would raise for the first of them.                *)
send_reminder ==
    /\ IF "supabase" \notin DatabaseAttributes
       THEN JobDone("send_reminder", TRUE, {}, {})
       ELSE LET order == SeqOfSet({u \in DOMAIN users : users[u].reminder_enabled = 1})
            IN IF order = <<>>
               THEN JobDone("send_reminder", FALSE, {}, {})
               ELSE IF ~HasData(get_daily_meals(order[1], Today))
                    THEN JobDone("send_reminder", TRUE, {}, {})
                    ELSE \E n \in 0..Len(order) :
                            JobDone("send_reminder", n < Len(order), {},
                                    {order[i] : i \in
                                        {j \in 1..n : get_daily_meals(order[j], Today) = <<>>}})
    /\ UNCHANGED <<storeVars, now, lookupVars, chatVars, runVars>>

(***************************************************************************)
(* The jobs statement by statement, for what can happen between two        *)
(* statements of a run.  A job is idle, or at one of the statements of its *)
(* body: "try" (lines 40, 78), "read" (line 47), "log" (line 59), "send"   *)
(* (lines 66, 98), "check" (line 88).                                      *)
(***************************************************************************)
(* A plausible slip: the except clause of calories_received. *)
JobCatchesValueError(raised) == raised = "ValueError"

(* "except Exception", lines 71 and 103 *)
JobCatches(raised) == TRUE

(* The CronTrigger fires and the executor starts a run of the job. *)
JobFires(j) ==
    /\ job[j].pos = "idle"
    /\ job' = [job EXCEPT ![j] = [pos |-> "try", queue |-> <<>>, total |-> 0]]
    /\ lastOp' = [op |-> "JobFires", job |-> j, raised |-> "", wrote |-> FALSE]
    /\ UNCHANGED <<storeVars, now, lookupVars, chatVars, db_locked>>

(* An exception raised inside the try block ends the run at the except     *)
(* clause; one the clause does not catch leaves the job function.          *)
JobRaises(j, step, raised) ==
    /\ job' = [job EXCEPT ![j] = IF JobCatches(raised) THEN Idle
                                 ELSE [pos |-> "propagated", queue |-> <<>>, total |-> 0]]
    /\ lastOp' = [op |-> step, job |-> j, raised |-> raised, wrote |-> FALSE]

JobGoes(j, step, pos, queue, total, wrote) ==
    /\ job' = [job EXCEPT ![j] = IF queue = <<>> THEN Idle
                                 ELSE [pos |-> pos, queue |-> queue, total |-> total]]
    /\ lastOp' = [op |-> step, job |-> j, raised |-> "", wrote |-> wrote]

(* One statement of a run of send_daily_summary. *)
send_daily_summary_step ==
    LET j == "send_daily_summary"
        me == job[j]
    IN /\ me.pos \in {"try", "read", "log", "send"}
       /\ IF me.pos = "try"
          THEN /\ IF "supabase" \notin DatabaseAttributes
                  THEN JobRaises(j, "send_daily_summary_step", "AttributeError")
                  ELSE JobGoes(j, "send_daily_summary_step", "read",
                               [i \in 1..Cardinality(DOMAIN users) |->
                                   users[SeqOfSet(DOMAIN users)[i]]], 0, FALSE)
               /\ UNCHANGED daily_logs
          ELSE IF db_locked /\ me.pos \in {"read", "log"}
          THEN /\ JobRaises(j, "send_daily_summary_step", "OperationalError")
               /\ UNCHANGED daily_logs
          ELSE IF me.pos = "read"
          THEN /\ JobGoes(j, "send_daily_summary_step", "log", me.queue,
                          get_daily_total(me.queue[1].user_id, Today), FALSE)
               /\ UNCHANGED daily_logs
          ELSE IF me.pos = "log"
          THEN /\ log_daily_summary(me.queue[1].user_id, me.total,
                                    me.total <= me.queue[1].daily_target)
               /\ JobGoes(j, "send_daily_summary_step", "send", me.queue, me.total, TRUE)
          ELSE /\ \E delivered \in BOOLEAN :
                     IF delivered
                     THEN JobGoes(j, "send_daily_summary_step", "read", Tail(me.queue), 0, FALSE)
                     ELSE JobRaises(j, "send_daily_summary_step", "TelegramError")
               /\ UNCHANGED daily_logs
       /\ UNCHANGED <<users, meals, now, lookupVars, chatVars, db_locked>>

(* One statement of a run of send_reminder. *)
send_reminder_step ==
    LET j == "send_reminder"
        me == job[j]
    IN /\ me.pos \in {"try", "check", "send"}
       /\ IF me.pos = "try"
          THEN IF "supabase" \notin DatabaseAttributes
               THEN JobRaises(j, "send_reminder_step", "AttributeError")
               ELSE LET enabled == SeqOfSet({u \in DOMAIN users :
                                               users[u].reminder_enabled = 1})
                    IN JobGoes(j, "send_reminder_step", "check",
                               [i \in 1..Len(enabled) |-> users[enabled[i]]], 0, FALSE)
          ELSE IF me.pos = "check"
          THEN IF db_locked
               THEN JobRaises(j, "send_reminder_step", "OperationalError")
               ELSE IF ~HasData(get_daily_meals(me.queue[1].user_id, Today))
                    THEN JobRaises(j, "send_reminder_step", "AttributeError")
                    ELSE IF get_daily_meals(me.queue[1].user_id, Today) = <<>>
                         THEN JobGoes(j, "send_reminder_step", "send", me.queue, 0, FALSE)
                         ELSE JobGoes(j, "send_reminder_step", "check", Tail(me.queue), 0,
                                      FALSE)
          ELSE \E delivered \in BOOLEAN :
                  IF delivered
                  THEN JobGoes(j, "send_reminder_step", "check", Tail(me.queue), 0, FALSE)
                  ELSE JobRaises(j, "send_reminder_step", "TelegramError")
       /\ UNCHANGED <<storeVars, now, lookupVars, chatVars, db_locked>>

(***************************************************************************)
(* Spec: the running bot.  The database file outlives the process (init_db *)
(* creates the tables only IF NOT EXISTS), so the bot starts on the users  *)
(* table an earlier run left: any table create_user can have written.      *)
(* The bot's clock is followed from day to day; what the store does with   *)
(* the times of one day is SpecMeals.                                      *)
(***************************************************************************)
DayPasses ==
    /\ now.day < MaxDay
    /\ now' = [day |-> now.day + 1, sec |-> Midnight, usec |-> 0]
    /\ lastOp' = [op |-> "DayPasses"]
    /\ UNCHANGED <<storeVars, lookupVars, chatVars, runVars>>

Init ==
    /\ now = StartOfTime
    /\ users \in {[u \in S |-> NewUserRow(u, "ann")] : S \in SUBSET UserIds}
    /\ meals = <<>>
    /\ daily_logs = <<>>
    /\ lastOp = [op |-> "init"]
    /\ clock = 0
    /\ lru = <<>>
    /\ cache = <<>>
    /\ calls = <<>>
    /\ conv = [u \in UserIds |-> "END"]
    /\ user_data = [u \in UserIds |-> "unset"]
    /\ db_locked = FALSE
    /\ job = [j \in Jobs |-> Idle]

Next ==
    \/ \E u \in UserIds : start(u)
    \/ \E u \in UserIds, args \in TargetArgs : set_target(u, args)
    \/ \E u \in UserIds : toggle_reminders(u)
    \/ \E u \in UserIds : add_command(u)
    \/ \E u \in UserIds, f \in FoodNames : food_name_received(u, f)
    \/ \E u \in UserIds, t \in CalorieTexts : calories_received(u, t)
    \/ \E u \in UserIds : cancel(u)
    \/ send_daily_summary
    \/ send_reminder
    \/ DayPasses

Spec == Init /\ [][Next]_vars

(* SpecSettings: the handlers that read or write the users table. *)
NextSettings ==
    \/ \E u \in UserIds : start(u)
    \/ \E u \in UserIds, args \in TargetArgs : set_target(u, args)
    \/ \E u \in UserIds : toggle_reminders(u)

SpecSettings == Init /\ [][NextSettings]_vars

(* SQLite refuses the statements of another connection while the database  *)
(* file is locked or cannot be written (sqlite3.OperationalError), and     *)
(* takes them again afterwards.                                            *)
DbLocks ==
    /\ ~db_locked
    /\ db_locked' = TRUE
    /\ lastOp' = [op |-> "DbLocks"]
    /\ UNCHANGED <<storeVars, now, lookupVars, chatVars, job>>

DbUnlocks ==
    /\ db_locked
    /\ db_locked' = FALSE
    /\ lastOp' = [op |-> "DbUnlocks"]
    /\ UNCHANGED <<storeVars, now, lookupVars, chatVars, job>>

(* SpecFaults: the command handlers on a store that can fail. *)
NextFaults ==
    \/ \E u \in UserIds : start(u)
    \/ \E u \in UserIds, args \in TargetArgs : set_target(u, args)
    \/ \E u \in UserIds : toggle_reminders(u)
    \/ \E u \in UserIds : add_command(u)
    \/ \E u \in UserIds, f \in FoodNames : food_name_received(u, f)
    \/ \E u \in UserIds, t \in CalorieTexts : calories_received(u, t)
    \/ \E u \in UserIds : cancel(u)
    \/ DbLocks
    \/ DbUnlocks

SpecFaults == Init /\ [][NextFaults]_vars

(* SpecPhoto: the photo handler, with the lookup and its caches. *)
NextPhoto ==
    \/ \E u \in UserIds, image \in Images : process_photo(u, image)
    \/ TimePasses

SpecPhoto == Init /\ [][NextPhoto]_vars

(* SpecJobs: the runs of the two jobs, statement by statement, beside the  *)
(* /add conversation.  In SpecJobsFair a started run goes on: the          *)
(* executor that started the job function runs it to its end.              *)
NextJobs ==
    \/ \E j \in Jobs : JobFires(j)
    \/ send_daily_summary_step
    \/ send_reminder_step
    \/ \E u \in UserIds : add_command(u)
    \/ \E u \in UserIds, f \in FoodNames : food_name_received(u, f)
    \/ \E u \in UserIds, t \in CalorieTexts : calories_received(u, t)
    \/ \E u \in UserIds : cancel(u)
    \/ DayPasses

SpecJobs == Init /\ [][NextJobs]_vars

SpecJobsFair ==
    SpecJobs /\ WF_vars(send_daily_summary_step) /\ WF_vars(send_reminder_step)

(***************************************************************************)
(* Claims about failures of the store (SpecFaults).                        *)
(***************************************************************************)
StoreCalls ==
    {"create_user", "get_user", "add_meal", "get_daily_meals", "get_daily_total",
     "update_settings", "log_daily_summary"}

TryAgainLater ==
    {"error starting the bot", "error updating your target",
     "error updating your reminder settings", "error processing your photo"}

(* C17: a persistence failure during any inbound handler, the calorie      *)
(* entry of /add included, does not escape the handler: it is caught and   *)
(* answered with a generic "try again later" reply, and the store call     *)
(* that failed is not made again.                                          *)
C17_StoreFailureIsAnswered ==
    [][(/\ db_locked
        /\ lastOp'.op \in {"start", "set_target", "toggle_reminders", "calories_received"}
        /\ lastOp'.called \cap StoreCalls # {})
          => /\ lastOp'.reply \in TryAgainLater
             /\ storeVars' = storeVars]_vars

(***************************************************************************)
(* Claims about the runs of the jobs (SpecJobs, SpecJobsFair).             *)
(***************************************************************************)
(* C19: an add_meal of a handler can come between the Daily Summary Job's  *)
(* read of daily_total and its log_daily_summary write for the same user,  *)
(* so that a row just written holds a total smaller than the user's        *)
(* daily_total at the write.  For that a run over an existing user has to  *)
(* come to the read of line 47, behind which the write of line 59 waits:   *)
(* the run passes its first statement whenever there is a user to read.    *)
C19_RunReadsThenWrites ==
    [][(/\ lastOp'.op = "send_daily_summary_step"
        /\ job["send_daily_summary"].pos = "try"
        /\ DOMAIN users # {})
          => job'["send_daily_summary"].pos = "read"]_vars

(* The state of C19: the row written last holds less than the user's       *)
(* daily_total at the write.                                               *)
StaleRowWritten ==
    /\ lastOp.op = "send_daily_summary_step"
    /\ lastOp.wrote
    /\ daily_logs # <<>>
    /\ LET row == daily_logs[Len(daily_logs)]
       IN row.total_calories < get_daily_total(row.user_id, row.date)

(* No run of the job writes a row, stale or not. *)
NoStaleRow == daily_logs = <<>> /\ ~StaleRowWritten

(* C20: every run of either scheduled job goes idle -> running -> idle:    *)
(* the run ends and the job is idle again, also when a call fails during   *)
(* the run; the failure is caught inside the job and never propagates to   *)
(* the scheduler.                                                          *)
C20_RunsReturnToIdle ==
    /\ [](\A j \in Jobs : job[j].pos # "propagated")
    /\ \A j \in Jobs : (job[j].pos # "idle") ~> (job[j].pos = "idle")
    /\ [][\A j \in Jobs :
             (job[j].pos = "idle" /\ job'[j].pos # "idle") => lastOp'.op = "JobFires"]_vars

(* A run of the summary job has ended in its except clause and the job is  *)
(* idle again, with users in the table, while the reminder job runs.       *)
C20_Witness ==
    /\ lastOp.op = "send_daily_summary_step"
    /\ lastOp.raised # ""
    /\ job["send_daily_summary"].pos = "idle"
    /\ job["send_reminder"].pos = "try"
    /\ DOMAIN users = UserIds

(***************************************************************************)
(* Claims about photos (SpecPhoto).                                        *)
(***************************************************************************)
SuggestsManualEntry ==
    {"couldn't recognize, use /add", "error processing your photo, use /add"}

(* C18: on an inbound photo a meal of type photo is added exactly when     *)
(* recognition and lookup return a food name with a calorie value; on any  *)
(* upstream failure (timeout, API error, not found, image too small) no    *)
(* meal is added and the user gets a reply suggesting manual entry; the    *)
(* handler completes without raising.  Nothing else in the store changes.  *)
C18_PhotoMealIffRecognized ==
    [][lastOp'.op = "process_photo" =>
          LET looked == Len(calls') = Len(calls) + 1
              result == calls'[Len(calls')].result
              recognized == looked /\ result.error = ""
          IN /\ lastOp'.reply # ""
             /\ users' = users /\ daily_logs' = daily_logs
             /\ IF recognized
                THEN /\ Len(meals') = Len(meals) + 1
                     /\ SubSeq(meals', 1, Len(meals)) = meals
                     /\ meals'[Len(meals')].user_id = lastOp'.user_id
                     /\ meals'[Len(meals')].meal_type = "photo"
                     /\ meals'[Len(meals')].food_name = result.name
                     /\ meals'[Len(meals')].calories = result.calories
                ELSE /\ meals' = meals
                     /\ lastOp'.reply \in SuggestsManualEntry]_vars

(***************************************************************************)
(* Claims about the scheduled jobs (Spec).                                 *)
(***************************************************************************)
(* A user the Reminder Job owes a reminder: reminders enabled and no meal  *)
(* today.                                                                  *)
ReminderDue(user_id) ==
    /\ users[user_id].reminder_enabled = 1
    /\ get_daily_meals(user_id, Today) = <<>>

(* C3: in a run of either job a failure while processing one user does not *)
(* abort the batch: every other user is still processed, so a run leaves   *)
(* at most one user without its DailyLog row and summary message, or       *)
(* without the reminder it is owed.                                        *)
C3_FailureDoesNotAbortBatch ==
    /\ lastOp.op = "send_daily_summary" =>
          Cardinality({u \in DOMAIN users :
                          ~(u \in lastOp.logged /\ u \in lastOp.sent)}) <= 1
    /\ lastOp.op = "send_reminder" =>
          Cardinality({u \in DOMAIN users : ReminderDue(u) /\ u \notin lastOp.sent}) <= 1

(* C4: each run of the Daily Summary Job appends, for every existing User, *)
(* exactly one DailyLog row for the current date, holding the user's       *)
(* daily_total and target_met = (daily_total <= daily_target), and sends   *)
(* the user a summary message.                                             *)
C4_SummaryLogsEveryUser ==
    [][lastOp'.op = "send_daily_summary" =>
          \A u \in DOMAIN users :
              LET appended == SubSeq(daily_logs', Len(daily_logs) + 1, Len(daily_logs'))
                  mine == SelectSeq(appended, LAMBDA r : r.user_id = u)
                  total == get_daily_total(u, Today)
              IN /\ Len(mine) = 1
                 /\ mine[1].date = Today
                 /\ mine[1].total_calories = total
                 /\ mine[1].target_met = (IF total <= users[u].daily_target THEN 1 ELSE 0)
                 /\ u \in lastOp'.sent]_vars

(* C5: a run of the Reminder Job sends a reminder to a user if and only if *)
(* the user has reminder_enabled = true and no meal today, and writes      *)
(* nothing to the store.                                                   *)
C5_ReminderIffDue ==
    [][lastOp'.op = "send_reminder" =>
          /\ storeVars' = storeVars
          /\ \A u \in UserIds :
                u \in lastOp'.sent <=> (u \in DOMAIN users /\ ReminderDue(u))]_vars

(* C21: the Daily Summary Job, fired at 00:00, computes each user's total   *)
(* for the date current at the run and logs it under that same date: the   *)
(* row's date and the day summed are the day that has just begun, so the   *)
(* meals of the preceding day are not part of the total logged and sent.   *)
(* For a user with a meal on the preceding day, the run appends a row      *)
(* dated today that holds the sum of today's meals only.                   *)
C21_SummaryLogsTheNewDay ==
    [][lastOp'.op = "send_daily_summary" =>
          \A u \in DOMAIN users :
              InDay(u, Today - 1) # {} =>
                 \E i \in (Len(daily_logs) + 1)..Len(daily_logs') :
                    /\ daily_logs'[i].user_id = u
                    /\ daily_logs'[i].date = Today
                    /\ daily_logs'[i].total_calories = SumOver(InDay(u, Today))
                    /\ u \in lastOp'.sent]_vars

(***************************************************************************)
(* Claims about the /add conversation and the meals it stores (Spec).      *)
(***************************************************************************)
NumericTexts == {<<"2", "5", "0">>, <<"-", "5">>}
NumberOf(text) == IF text = <<"2", "5", "0">> THEN 250 ELSE 0 - 5

(* C12: the manual-logging conversation follows /add -> food-name entry -> *)
(* calorie entry -> ended.  A cancel in either state ends it without       *)
(* adding a meal; a calorie message that is no number keeps it in the      *)
(* calorie-entry state with a corrective prompt and adds no meal; a        *)
(* numeric calorie message adds exactly one meal of type manual with the   *)
(* food name entered before, and ends it.                                  *)
C12_ConversationFlow ==
    [][\A u \in UserIds :
          /\ add_command(u) =>
                 conv[u] = "END" /\ conv'[u] = "FOOD_NAME" /\ meals' = meals
          /\ \A f \in FoodNames :
                 food_name_received(u, f) =>
                    conv[u] = "FOOD_NAME" /\ conv'[u] = "CALORIES" /\ meals' = meals
          /\ cancel(u) =>
                 conv[u] \in {"FOOD_NAME", "CALORIES"} /\ conv'[u] = "END" /\ meals' = meals
          /\ \A t \in CalorieTexts :
                 calories_received(u, t) =>
                    /\ conv[u] = "CALORIES"
                    /\ t \notin NumericTexts =>
                          /\ conv'[u] = "CALORIES"
                          /\ lastOp'.reply = "enter a valid number"
                          /\ meals' = meals
                    /\ t \in NumericTexts =>
                          /\ conv'[u] = "END"
                          /\ Len(meals') = Len(meals) + 1
                          /\ SubSeq(meals', 1, Len(meals)) = meals
                          /\ meals'[Len(meals')].user_id = u
                          /\ meals'[Len(meals')].meal_type = "manual"
                          /\ meals'[Len(meals')].food_name = user_data[u]
                          /\ meals'[Len(meals')].calories = NumberOf(t)
          /\ (conv'[u] # conv[u]) =>
                 <<conv[u], conv'[u]>> \in {<<"END", "FOOD_NAME">>, <<"FOOD_NAME", "CALORIES">>,
                                           <<"CALORIES", "END">>, <<"FOOD_NAME", "END">>}]_vars

(* A conversation has gone through its states to the end and stored the    *)
(* meal, after a text that was no number, while another was cancelled.     *)
C12_Witness ==
    /\ lastOp.op = "cancel"
    /\ \E u \in UserIds :
           /\ u # lastOp.user_id
           /\ conv[u] = "END"
           /\ \E i \in 1..Len(meals) :
                  /\ meals[i].user_id = u
                  /\ meals[i].meal_type = "manual"
                  /\ meals[i].food_name = user_data[u]

(* C13: after any sequence of inbound commands and photos every stored     *)
(* Meal belongs to exactly one existing User: no handler adds a meal for   *)
(* a user_id that has no User row.                                         *)
C13_MealsBelongToUsers ==
    \A i \in 1..Len(meals) : meals[i].user_id \in DOMAIN users

(* C14: every stored Meal has non-negative calories, so no daily_total is  *)
(* negative.                                                               *)
C14_CaloriesNonNegative ==
    /\ \A i \in 1..Len(meals) : meals[i].calories >= 0
    /\ \A u \in UserIds, d \in Days : get_daily_total(u, d) >= 0

IsPrefix(old, new) == Len(old) <= Len(new) /\ SubSeq(new, 1, Len(old)) = old

(* C16: the store is append-only for meals and daily logs and never        *)
(* deletes users: no handler and no scheduled job deletes a User, Meal or  *)
(* DailyLog row or changes an existing Meal or DailyLog row; an existing   *)
(* User row changes only by update_settings, in daily_target or            *)
(* reminder_enabled.                                                       *)
C16_AppendOnly ==
    [][/\ DOMAIN users \subseteq DOMAIN users'
       /\ IsPrefix(meals, meals')
       /\ IsPrefix(daily_logs, daily_logs')
       /\ \A u \in DOMAIN users :
              users'[u] # users[u] =>
                 /\ lastOp'.op \in {"set_target", "toggle_reminders"}
                 /\ "update_settings" \in lastOp'.called
                 /\ \A c \in Columns \ {"daily_target", "reminder_enabled"} :
                        users'[u][c] = users[u][c]]_vars

(* A second meal of a user was appended behind the first, after a          *)
(* /set_target changed a User row.                                         *)
C16_Witness ==
    /\ lastOp.op = "calories_received"
    /\ Len(meals) = 2
    /\ meals[1].user_id = meals[2].user_id
    /\ meals[1].food_name = meals[2].food_name
    /\ \E u \in DOMAIN users : users[u].daily_target # 2000

(***************************************************************************)
(* Claims about the settings commands (SpecSettings).                      *)
(***************************************************************************)
(* C15: a User is created on first interaction: after /start from a user   *)
(* that has no record a User row exists for that id with reminder_enabled  *)
(* = true and daily_target = 2000; /start from a user that has a record    *)
(* changes nothing in the store.                                           *)
C15_StartCreatesUser ==
    [][\A u \in UserIds :
          start(u) =>
             IF u \in DOMAIN users
             THEN storeVars' = storeVars
             ELSE /\ u \in DOMAIN users'
                  /\ users'[u].reminder_enabled = 1
                  /\ users'[u].daily_target = 2000
                  /\ \A v \in DOMAIN users : users'[v] = users[v]]_vars

(* C23: for an existing user /toggle_reminders flips reminder_enabled and  *)
(* leaves daily_target and every other user's row unchanged (so that two   *)
(* toggles in a row restore the setting); /set_target leaves               *)
(* reminder_enabled unchanged; for a user with no record both commands     *)
(* leave the store unchanged.                                              *)
C23_ToggleFlipsOnly ==
    [][\A u \in UserIds :
          /\ toggle_reminders(u) =>
                 IF u \in DOMAIN users
                 THEN /\ users' = [users EXCEPT ![u].reminder_enabled = 1 - @]
                      /\ meals' = meals /\ daily_logs' = daily_logs
                 ELSE storeVars' = storeVars
          /\ \A args \in TargetArgs :
                 set_target(u, args) =>
                    /\ meals' = meals /\ daily_logs' = daily_logs
                    /\ DOMAIN users' = DOMAIN users
                    /\ \A v \in DOMAIN users :
                           /\ users'[v].reminder_enabled = users[v].reminder_enabled
                           /\ v # u => users'[v] = users[v]]_vars

(* The argument list holds an integer of [500, 5000] in decimal. *)
ValidTargetArg(args) ==
    /\ args # <<>>
    /\ args[1] # <<>>
    /\ \A i \in 1..Len(args[1]) : IsDecimal(args[1][i])
    /\ IntOf(args[1]) >= 500
    /\ IntOf(args[1]) <= 5000

TargetsInRange ==
    \A u \in DOMAIN users :
        users[u].daily_target = 2000
        \/ (users[u].daily_target >= 500 /\ users[u].daily_target <= 5000)

CalledStore == "update_settings" \in lastOp'.called

(* C8, as stated: /set_target calls update_settings only for an integer of *)
(* [500, 5000], after which get_user reflects daily_target equal to it;    *)
(* any other argument leaves daily_target unchanged; every daily_target is *)
(* 2000 or within [500, 5000].                                             *)
C8_SetTargetAsStated ==
    /\ []TargetsInRange
    /\ [][\A u \in UserIds, args \in TargetArgs :
             set_target(u, args) =>
                 /\ CalledStore => ValidTargetArg(args)
                 /\ CalledStore =>
                       /\ u \in DOMAIN users'
                       /\ users'[u].daily_target = IntOf(args[1])
                 /\ ~CalledStore => users' = users]_vars

(* C8, amended: get_user reflects the new daily_target when the user has a *)
(* row; for a user without one the call changes nothing.                   *)
C8_SetTargetValidated ==
    /\ []TargetsInRange
    /\ [][\A u \in UserIds, args \in TargetArgs :
             set_target(u, args) =>
                 /\ CalledStore => ValidTargetArg(args)
                 /\ (CalledStore /\ u \in DOMAIN users) =>
                       /\ users' = [users EXCEPT ![u].daily_target = IntOf(args[1])]
                 /\ (CalledStore /\ u \notin DOMAIN users) => users' = users
                 /\ ~CalledStore => users' = users]_vars

(* /set_target has just stored a new target for a user that has a row. *)
C8_Witness ==
    /\ lastOp.op = "set_target"
    /\ "update_settings" \in lastOp.called
    /\ lastOp.user_id \in DOMAIN users
    /\ users[lastOp.user_id].daily_target \in {500, 5000}
    /\ \E v \in DOMAIN users : users[v].daily_target = 2000

====
